---- MODULE Spec2Model ----
(***************************************************************************)
(* CacheManager<T> (react-caching, utils/CacheManager.ts): a localStorage  *)
(* backed cache that serves stale data and defers its refresh to an idle   *)
(* callback.  One store key, shared by every CacheManager instance.        *)
(*                                                                         *)
(* JavaScript runs the code of one task to completion, so every action is  *)
(* one run-to-completion section: a getData call up to its return or its   *)
(* await, the continuation after an awaited fetch settled, the idle        *)
(* callback up to its await, and the continuation of that callback.        *)
(***************************************************************************)
EXTENDS FiniteSets, Integers, Sequences, TLC

\* ---------------------------------------------------------------- bounds
\* The clock runs over the half-second instants 0 .. MaxTick half seconds.
MaxTick == 4
\* getData calls that may await their fetch at the same time.
MaxPending == 2
\* Callbacks the idle scheduler and the fetch layer hold at the same time.
MaxQueue == 3

\* date-fns add(date, {seconds: n}) adds n * 1000 milliseconds.
MsPerSecond == 1000

Instants == {k * (MsPerSecond \div 2) : k \in 0..MaxTick}

\* The CacheManager instances that may exist for the key, and the values
\* expirationSeconds takes.
Instances == {"A", "B"}
TTLs == {1, 2}

\* ------------------------------------------------------ JavaScript values
JsUndefined == [type |-> "undefined", num |-> 0, str |-> ""]
JsNull == [type |-> "null", num |-> 0, str |-> ""]
JsNaN == [type |-> "nan", num |-> 0, str |-> ""]
JsNum(n) == [type |-> "number", num |-> n, str |-> ""]
JsStr(s) == [type |-> "string", num |-> 0, str |-> s]

\* What `if (cachedValue)` and `if (cacheItem)` test: ToBoolean of the value.
Truthy(v) ==
    CASE v.type \in {"undefined", "null", "nan"} -> FALSE
      [] v.type = "boolean" -> v.num = 1
      [] v.type = "number" -> v.num # 0
      [] v.type = "string" -> v.str # ""
      [] OTHER -> TRUE

\* The values the FetchFunction of the model resolves to.
FetchValues == {JsNum(0), JsNum(1), JsStr(""), JsStr("a"), JsNull, JsNaN}

\* The values that JSON can represent.
JsonSerializable(v) == v.type \notin {"undefined", "nan"}

\* ------------------------------------------------------------------ dates
\* A Date is its time value in milliseconds, or the Invalid Date.
ValidDate(ms) == [valid |-> TRUE, time |-> ms]
InvalidDate == [valid |-> FALSE, time |-> 0]

\* The "expiration" property of a stored JSON object: an ISO-8601 string, a
\* string that is no date, or no property at all.
IsoString(ms) == [form |-> "iso", ms |-> ms]
NoDateString == [form |-> "text", ms |-> 0]
NoProperty == [form |-> "absent", ms |-> 0]

\* Date.prototype.toISOString: millisecond precision.
ToISOString(d) == IsoString(d.time)

\* new Date(x) for x the parsed "expiration" property.
NewDate(x) == IF x.form = "iso" THEN ValidDate(x.ms) ELSE InvalidDate

\* date-fns add(date, {seconds}).
AddSeconds_AsMilliseconds(d, seconds) == ValidDate(d.time + seconds)

AddSeconds(d, seconds) == ValidDate(d.time + seconds * MsPerSecond)

\* date-fns format(date, "HH:mm:ss") throws a RangeError on an Invalid Date.
FormatThrows(d) == ~d.valid

\* `a > b` on Dates compares the time values; with NaN it is false.
DateGreater_InvalidIsPast(a, b) == ~b.valid \/ (a.valid /\ a.time > b.time)

DateGreater(a, b) == a.valid /\ b.valid /\ a.time > b.time

\* ------------------------------------------------------- localStorage item
\* What localStorage.getItem(key) returns: null, or the stored string.  A
\* string is the empty string, a text that is no JSON, the JSON text null,
\* or the JSON text of an object with the properties expiration and value.
NoItem == [kind |-> "none", expiration |-> NoProperty, value |-> JsUndefined]
EmptyText == [kind |-> "empty", expiration |-> NoProperty, value |-> JsUndefined]
NotJson == [kind |-> "notjson", expiration |-> NoProperty, value |-> JsUndefined]
JsonNullText == [kind |-> "jsonnull", expiration |-> NoProperty, value |-> JsUndefined]
ObjectText(e, v) == [kind |-> "object", expiration |-> e, value |-> v]

\* JSON.stringify of {expiration, value}: NaN becomes null and a property
\* whose value is undefined is left out.
JSONStringify(entry) ==
    ObjectText(entry.expiration,
               IF entry.value.type = "nan" THEN JsNull ELSE entry.value)

\* JSON.parse(text): throws on a text that is no JSON; the JSON text null
\* parses to null; a property that is left out reads as undefined.
JSONParseThrows(text) == text.kind \in {"empty", "notjson"}

JSONParse(text) ==
    IF text.kind = "jsonnull"
    THEN [isNull |-> TRUE, expiration |-> NoProperty, value |-> JsUndefined]
    ELSE [isNull |-> FALSE, expiration |-> text.expiration, value |-> text.value]

\* ------------------------------------------------------------------ state
VARIABLES
    now,               \* the clock: what new Date() returns, in milliseconds
    store,             \* localStorage.getItem(key)
    live,              \* the CacheManager instances constructed for the key
    expirationSeconds, \* per instance: this.expirationSeconds
    hasObserver,       \* per instance: an onBackgroundRefresh was supplied
    refreshScheduled,  \* per instance: this.refreshScheduled
    idleQueue,         \* per instance: callbacks the idle scheduler holds
    refreshing,        \* per instance: idle callbacks awaiting their fetch
    syncFetches,       \* per instance and reload: getData calls awaiting their fetch
    lastWrite,         \* the last setCache whose entry the store still holds
    last               \* what the last step did and returned

vars == <<now, store, live, expirationSeconds, hasObserver, refreshScheduled,
          idleQueue, refreshing, syncFetches, lastWrite, last>>

NoValue == [type |-> "none", num |-> 0, str |-> ""]
NoWrite == [written |-> FALSE, value |-> NoValue, at |-> 0, seconds |-> 0]

\* The record of a step: the operation, its instance and argument; the item
\* the store held and the instance's flag when the step began; the branch
\* getData took ("fresh", "stale", "miss"); whether the catch block ran; the
\* value the call returned; the value the awaited fetch resolved with;
\* whether the promise of getData rejected; whether the step invoked the
\* FetchFunction; how many idle callbacks it registered; the value it
\* passed to onBackgroundRefresh; the argument of updateExpiration; and the
\* effects of the step in program order.
Step(op, i) ==
    [op |-> op, inst |-> i, reload |-> FALSE, item |-> store,
     pending |-> refreshScheduled[i], branch |-> "-", caught |-> FALSE,
     returned |-> NoValue, fetched |-> NoValue, rejected |-> FALSE,
     fetchInvoked |-> FALSE, registered |-> 0, observed |-> NoValue,
     seconds |-> 0, effects |-> <<>>]

\* The strings other code of the page may leave under the key.
ForeignTexts ==
    {EmptyText, NotJson, JsonNullText,
     ObjectText(NoProperty, JsStr("a")), ObjectText(NoDateString, JsNum(1)),
     ObjectText(NoProperty, JsNum(0)), ObjectText(NoProperty, JsUndefined)}

\* Callbacks of every instance that the scheduler holds or that are running.
Outstanding(i) == idleQueue[i] + refreshing[i]
Sum(f, S) == LET RECURSIVE Acc(_)
                 Acc(T) == IF T = {} THEN 0
                           ELSE LET x == CHOOSE y \in T : TRUE
                                IN f[x] + Acc(T \ {x})
             IN Acc(S)
AllOutstanding == Sum(idleQueue, Instances) + Sum(refreshing, Instances)
AllSyncFetches == Sum(syncFetches, Instances \X BOOLEAN)

\* --------------------------------------------------------- getData, parts
\* getData lines 53-56: reload removes the item before the lookup.
ItemAfterReload_Kept(reload, item) == item

ItemAfterReload(reload, item) == IF reload THEN NoItem ELSE item

\* getData lines 58-71: cachedValue and expiration after the lookup.
\* cachedValue starts as null and expiration as new Date(); the try block
\* assigns expiration, then cachedValue, and then formats the expiration for
\* the log; whatever throws in it is caught.
Lookup(item, nowDate) ==
    LET initial == [cachedValue |-> JsNull, expiration |-> nowDate, caught |-> FALSE]
    IN  IF item.kind \in {"none", "empty"} THEN initial
        ELSE IF JSONParseThrows(item) THEN [initial EXCEPT !.caught = TRUE]
        ELSE LET cacheJSON == JSONParse(item)
             IN  IF cacheJSON.isNull THEN [initial EXCEPT !.caught = TRUE]
                 ELSE LET expiration == NewDate(cacheJSON.expiration)
                      IN  [cachedValue |-> cacheJSON.value,
                           expiration |-> expiration,
                           caught |-> FormatThrows(expiration)]

\* getData line 75: new Date() > expiration.
IsExpired(nowDate, expiration) == DateGreater(nowDate, expiration)

\* scheduleRefresh line 105: the guard; a callback is registered when the
\* flag is not set.
Registers_Always(flag) == TRUE

Registers_SharedFlag(flag) == \A j \in Instances : ~refreshScheduled[j]

Registers(flag) == ~flag

\* setCache lines 91-97: the string written to the store.
SetCacheText(data, nowDate, seconds) ==
    JSONStringify([expiration |-> ToISOString(AddSeconds(nowDate, seconds)),
                   value |-> data])

\* scheduleRefresh line 119: the flag when the callback ends.
FlagAfterRefresh_OnlyOnSuccess(succeeded) == ~succeeded

FlagAfterRefresh(succeeded) == FALSE

\* scheduleRefresh lines 112-119: what the callback does, in program order,
\* once its fetch resolved: setCache, the observer if one was supplied, and
\* the reset of the flag in the finally block.
RefreshEffects_ObserverFirst(observer) ==
    (IF observer THEN <<"onBackgroundRefresh">> ELSE <<>>)
        \o <<"setCache", "refreshScheduled">>

RefreshEffects(observer) ==
    <<"setCache">>
        \o (IF observer THEN <<"onBackgroundRefresh">> ELSE <<>>)
        \o <<"refreshScheduled">>

Inc(f, x) == [f EXCEPT ![x] = @ + 1]
Dec(f, x) == [f EXCEPT ![x] = @ - 1]

\* ---------------------------------------------------------------- actions
Init ==
    /\ now = 0
    /\ store = NoItem
    /\ live = {"A"}
    /\ expirationSeconds \in [Instances -> TTLs]
    /\ \A i \in Instances \ {"A"} : expirationSeconds[i] = 1
    /\ hasObserver \in [Instances -> BOOLEAN]
    /\ \A i \in Instances \ {"A"} : hasObserver[i] = FALSE
    /\ refreshScheduled = [i \in Instances |-> FALSE]
    /\ idleQueue = [i \in Instances |-> 0]
    /\ refreshing = [i \in Instances |-> 0]
    /\ syncFetches = [c \in Instances \X BOOLEAN |-> 0]
    /\ lastWrite = NoWrite
    /\ last = Step("init", "A")

\* getData(reload) up to its return (a usable cached value) or up to its
\* await of the FetchFunction (lines 51-83).
GetData_Deduplicated(i, reload) ==
    LET item == ItemAfterReload(reload, store)
        nowDate == ValidDate(now)
        look == Lookup(item, nowDate)
        step == [Step("getData", i) EXCEPT !.reload = reload, !.caught = look.caught]
        joins == syncFetches[<<i, reload>>] > 0
    IN  /\ i \in live
        /\ store' = item
        /\ lastWrite' = IF item = store THEN lastWrite ELSE NoWrite
        /\ IF Truthy(look.cachedValue)
           THEN LET expired == IsExpired(nowDate, look.expiration)
                    registers == expired /\ Registers(refreshScheduled[i])
                IN  /\ registers => AllOutstanding < MaxQueue
                    /\ refreshScheduled' =
                          IF expired THEN [refreshScheduled EXCEPT ![i] = TRUE]
                          ELSE refreshScheduled
                    /\ idleQueue' = IF registers THEN Inc(idleQueue, i) ELSE idleQueue
                    /\ last' = [step EXCEPT
                                  !.branch = IF expired THEN "stale" ELSE "fresh",
                                  !.returned = look.cachedValue,
                                  !.registered = IF registers THEN 1 ELSE 0]
                    /\ UNCHANGED syncFetches
           ELSE /\ AllSyncFetches < MaxPending
                /\ syncFetches' = IF joins THEN syncFetches
                                  ELSE Inc(syncFetches, <<i, reload>>)
                /\ last' = [step EXCEPT !.branch = "miss", !.fetchInvoked = ~joins]
                /\ UNCHANGED <<refreshScheduled, idleQueue>>
        /\ UNCHANGED <<now, live, expirationSeconds, hasObserver, refreshing>>

GetData(i, reload) ==
    LET item == ItemAfterReload(reload, store)
        nowDate == ValidDate(now)
        look == Lookup(item, nowDate)
        step == [Step("getData", i) EXCEPT !.reload = reload, !.caught = look.caught]
    IN  /\ i \in live
        /\ store' = item
        /\ lastWrite' = IF item = store THEN lastWrite ELSE NoWrite
        /\ IF Truthy(look.cachedValue)
           THEN LET expired == IsExpired(nowDate, look.expiration)
                    registers == expired /\ Registers(refreshScheduled[i])
                IN  /\ registers => AllOutstanding < MaxQueue
                    /\ refreshScheduled' =
                          IF expired THEN [refreshScheduled EXCEPT ![i] = TRUE]
                          ELSE refreshScheduled
                    /\ idleQueue' = IF registers THEN Inc(idleQueue, i) ELSE idleQueue
                    /\ last' = [step EXCEPT
                                  !.branch = IF expired THEN "stale" ELSE "fresh",
                                  !.returned = look.cachedValue,
                                  !.registered = IF registers THEN 1 ELSE 0]
                    /\ UNCHANGED syncFetches
           ELSE /\ AllSyncFetches < MaxPending
                /\ syncFetches' = Inc(syncFetches, <<i, reload>>)
                /\ last' = [step EXCEPT !.branch = "miss", !.fetchInvoked = TRUE]
                /\ UNCHANGED <<refreshScheduled, idleQueue>>
        /\ UNCHANGED <<now, live, expirationSeconds, hasObserver, refreshing>>

\* The awaited fetch of a getData call resolved with v: setCache and return
\* (lines 83-85).
SyncFetchResolve_YieldsToRefresh(i, reload, v) ==
    /\ syncFetches[<<i, reload>>] > 0
    /\ syncFetches' = Dec(syncFetches, <<i, reload>>)
    /\ store' = IF refreshScheduled[i] THEN store
                ELSE SetCacheText(v, ValidDate(now), expirationSeconds[i])
    /\ lastWrite' = IF refreshScheduled[i] THEN lastWrite
                    ELSE [written |-> TRUE, value |-> v, at |-> now,
                          seconds |-> expirationSeconds[i]]
    /\ last' = [Step("syncResolve", i) EXCEPT
                  !.reload = reload, !.fetched = v, !.returned = v]
    /\ UNCHANGED <<now, live, expirationSeconds, hasObserver, refreshScheduled,
                   idleQueue, refreshing>>

SyncFetchResolve(i, reload, v) ==
    /\ syncFetches[<<i, reload>>] > 0
    /\ syncFetches' = Dec(syncFetches, <<i, reload>>)
    /\ store' = SetCacheText(v, ValidDate(now), expirationSeconds[i])
    /\ lastWrite' = [written |-> TRUE, value |-> v, at |-> now,
                     seconds |-> expirationSeconds[i]]
    /\ last' = [Step("syncResolve", i) EXCEPT
                  !.reload = reload, !.fetched = v, !.returned = v]
    /\ UNCHANGED <<now, live, expirationSeconds, hasObserver, refreshScheduled,
                   idleQueue, refreshing>>

\* The awaited fetch of a getData call failed: the await throws and the
\* promise of getData rejects (line 83).
SyncFetchReject_Swallowed(i, reload) ==
    /\ syncFetches[<<i, reload>>] > 0
    /\ syncFetches' = Dec(syncFetches, <<i, reload>>)
    /\ store' = SetCacheText(JsUndefined, ValidDate(now), expirationSeconds[i])
    /\ lastWrite' = [written |-> TRUE, value |-> JsUndefined, at |-> now,
                     seconds |-> expirationSeconds[i]]
    /\ last' = [Step("syncReject", i) EXCEPT !.reload = reload, !.returned = JsUndefined]
    /\ UNCHANGED <<now, live, expirationSeconds, hasObserver, refreshScheduled,
                   idleQueue, refreshing>>

SyncFetchReject(i, reload) ==
    /\ syncFetches[<<i, reload>>] > 0
    /\ syncFetches' = Dec(syncFetches, <<i, reload>>)
    /\ last' = [Step("syncReject", i) EXCEPT !.reload = reload, !.rejected = TRUE]
    /\ UNCHANGED <<now, store, live, expirationSeconds, hasObserver,
                   refreshScheduled, idleQueue, refreshing, lastWrite>>

\* The idle scheduler (requestIdleCallback, or the 200 ms timer) runs a
\* registered callback up to its await of the FetchFunction (lines 108-111).
IdleRun_NeverIdle(i) ==
    /\ idleQueue[i] > 1
    /\ idleQueue' = Dec(idleQueue, i)
    /\ refreshing' = Inc(refreshing, i)
    /\ last' = [Step("idleRun", i) EXCEPT !.fetchInvoked = TRUE]
    /\ UNCHANGED <<now, store, live, expirationSeconds, hasObserver,
                   refreshScheduled, syncFetches, lastWrite>>

IdleRun_ClearsFlag(i) ==
    /\ idleQueue[i] > 0
    /\ idleQueue' = Dec(idleQueue, i)
    /\ refreshing' = Inc(refreshing, i)
    /\ refreshScheduled' = [refreshScheduled EXCEPT ![i] = FALSE]
    /\ last' = [Step("idleRun", i) EXCEPT !.fetchInvoked = TRUE]
    /\ UNCHANGED <<now, store, live, expirationSeconds, hasObserver,
                   syncFetches, lastWrite>>

IdleRun(i) ==
    /\ idleQueue[i] > 0
    /\ idleQueue' = Dec(idleQueue, i)
    /\ refreshing' = Inc(refreshing, i)
    /\ last' = [Step("idleRun", i) EXCEPT !.fetchInvoked = TRUE]
    /\ UNCHANGED <<now, store, live, expirationSeconds, hasObserver,
                   refreshScheduled, syncFetches, lastWrite>>

\* The fetch of a deferred refresh resolved with v: setCache, the observer,
\* and the finally block (lines 111-114, 119).
RefreshResolve(i, v) ==
    /\ refreshing[i] > 0
    /\ refreshing' = Dec(refreshing, i)
    /\ store' = SetCacheText(v, ValidDate(now), expirationSeconds[i])
    /\ lastWrite' = [written |-> TRUE, value |-> v, at |-> now,
                     seconds |-> expirationSeconds[i]]
    /\ refreshScheduled' = [refreshScheduled EXCEPT ![i] = FlagAfterRefresh(TRUE)]
    /\ last' = [Step("refreshResolve", i) EXCEPT
                  !.fetched = v,
                  !.observed = IF hasObserver[i] THEN v ELSE NoValue,
                  !.effects = RefreshEffects(hasObserver[i])]
    /\ UNCHANGED <<now, live, expirationSeconds, hasObserver, idleQueue, syncFetches>>

\* The fetch of a deferred refresh failed: the catch block logs, then the
\* finally block (lines 115-119).
RefreshReject_InFinally(i) ==
    /\ refreshing[i] > 0
    /\ refreshing' = Dec(refreshing, i)
    /\ store' = SetCacheText(JsUndefined, ValidDate(now), expirationSeconds[i])
    /\ lastWrite' = [written |-> TRUE, value |-> JsUndefined, at |-> now,
                     seconds |-> expirationSeconds[i]]
    /\ refreshScheduled' = [refreshScheduled EXCEPT ![i] = FlagAfterRefresh(FALSE)]
    /\ last' = [Step("refreshReject", i) EXCEPT
                  !.observed = IF hasObserver[i] THEN JsUndefined ELSE NoValue]
    /\ UNCHANGED <<now, live, expirationSeconds, hasObserver, idleQueue, syncFetches>>

RefreshReject_Evicts(i) ==
    /\ refreshing[i] > 0
    /\ refreshing' = Dec(refreshing, i)
    /\ store' = NoItem
    /\ lastWrite' = NoWrite
    /\ refreshScheduled' = [refreshScheduled EXCEPT ![i] = FlagAfterRefresh(FALSE)]
    /\ last' = Step("refreshReject", i)
    /\ UNCHANGED <<now, live, expirationSeconds, hasObserver, idleQueue, syncFetches>>

RefreshReject(i) ==
    /\ refreshing[i] > 0
    /\ refreshing' = Dec(refreshing, i)
    /\ refreshScheduled' = [refreshScheduled EXCEPT ![i] = FlagAfterRefresh(FALSE)]
    /\ last' = Step("refreshReject", i)
    /\ UNCHANGED <<now, store, live, expirationSeconds, hasObserver, idleQueue,
                   syncFetches, lastWrite>>

\* updateExpiration(newExpirationSeconds) (lines 138-141).
UpdateExpiration_Restamps(i, seconds) ==
    /\ i \in live
    /\ expirationSeconds' = [expirationSeconds EXCEPT ![i] = seconds]
    /\ store' = IF store.kind = "object" /\ store.expiration.form = "iso"
                THEN [store EXCEPT !.expiration =
                         ToISOString(AddSeconds(ValidDate(now), seconds))]
                ELSE store
    /\ last' = [Step("updateExpiration", i) EXCEPT !.seconds = seconds]
    /\ UNCHANGED <<now, live, hasObserver, refreshScheduled, idleQueue,
                   refreshing, syncFetches, lastWrite>>

UpdateExpiration(i, seconds) ==
    /\ i \in live
    /\ expirationSeconds' = [expirationSeconds EXCEPT ![i] = seconds]
    /\ last' = [Step("updateExpiration", i) EXCEPT !.seconds = seconds]
    /\ UNCHANGED <<now, store, live, hasObserver, refreshScheduled, idleQueue,
                   refreshing, syncFetches, lastWrite>>

\* Time passes.
Tick ==
    /\ \E t \in Instants : t > now /\ now' = t
    /\ last' = Step("tick", "A")
    /\ UNCHANGED <<store, live, expirationSeconds, hasObserver, refreshScheduled,
                   idleQueue, refreshing, syncFetches, lastWrite>>

\* Other code of the page writes the key of the shared store.
ForeignWrite(text) ==
    /\ store' = text
    /\ lastWrite' = NoWrite
    /\ last' = Step("foreignWrite", "A")
    /\ UNCHANGED <<now, live, expirationSeconds, hasObserver, refreshScheduled,
                   idleQueue, refreshing, syncFetches>>

Next ==
    \/ \E i \in Instances, reload \in BOOLEAN : GetData(i, reload)
    \/ \E i \in Instances, reload \in BOOLEAN, v \in FetchValues :
          SyncFetchResolve(i, reload, v)
    \/ \E i \in Instances, reload \in BOOLEAN : SyncFetchReject(i, reload)
    \/ \E i \in Instances : IdleRun(i)
    \/ \E i \in Instances, v \in FetchValues : RefreshResolve(i, v)
    \/ \E i \in Instances : RefreshReject(i)
    \/ \E i \in Instances, seconds \in TTLs : UpdateExpiration(i, seconds)
    \/ Tick
    \/ \E text \in ForeignTexts : ForeignWrite(text)

Spec == Init /\ [][Next]_vars

\* new CacheManager(key, expirationSeconds, fetchFunction, onBackgroundRefresh,
\* onLog) for the same key (lines 36-45), as the sample component does
\* whenever its expirationSeconds state changes.
Construct(i, seconds, observer) ==
    /\ i \notin live
    /\ live' = live \cup {i}
    /\ expirationSeconds' = [expirationSeconds EXCEPT ![i] = seconds]
    /\ hasObserver' = [hasObserver EXCEPT ![i] = observer]
    /\ refreshScheduled' = [refreshScheduled EXCEPT ![i] = FALSE]
    /\ last' = Step("construct", i)
    /\ UNCHANGED <<now, store, idleQueue, refreshing, syncFetches, lastWrite>>

\* The values the FetchFunction of the instances on the shared key resolves
\* with.
SharedValues == {JsNum(1), JsStr("a")}

\* The steps of the instances on the shared key: construction, reads, the
\* fetches of cold reads, the deferred refreshes, and time.
NextShared ==
    \/ \E i \in Instances, seconds \in TTLs, observer \in BOOLEAN :
          Construct(i, seconds, observer)
    \/ \E i \in Instances, reload \in BOOLEAN : GetData(i, reload)
    \/ \E i \in Instances, reload \in BOOLEAN, v \in SharedValues :
          SyncFetchResolve(i, reload, v)
    \/ \E i \in Instances : IdleRun(i)
    \/ \E i \in Instances, v \in SharedValues : RefreshResolve(i, v)
    \/ \E i \in Instances : RefreshReject(i)
    \/ Tick

\* Several CacheManager instances on the one key.
SharedSpec == Init /\ [][NextShared]_vars

\* The fetch of a deferred refresh of i settles: it resolves or it fails.
RefreshSettles(i) ==
    \/ \E v \in FetchValues : RefreshResolve(i, v)
    \/ RefreshReject(i)

\* The scheduler runs every callback it holds (when the page is idle, or
\* after the 200 ms of the timer), and every fetch of a deferred refresh
\* settles.
FairSpec ==
    /\ Spec
    /\ \A i \in Instances : WF_vars(IdleRun(i))
    /\ \A i \in Instances : WF_vars(RefreshSettles(i))

\* ----------------------------------------------------------------- claims
\* The stored item deserializes without error to an entry with a value.
ValidEntry(item) ==
    /\ item.kind = "object"
    /\ item.expiration.form = "iso"
    /\ item.value.type # "undefined"

\* The last step was a getData(reload) call, up to its return or its await.
GetDataStep(reload) == last.op = "getData" /\ last.reload = reload

\* The time at which the entry of the last write expires: write time + TTL.
WriteExpiry == lastWrite.at + lastWrite.seconds * MsPerSecond

\* C1: an instance never has more than one deferred refresh outstanding
\* (registered with the scheduler or awaiting its fetch); a getData(false)
\* that detects a stale entry registers no callback when the flag is set and
\* one when it is not, so that after it exactly one is outstanding.
AtMostOneRefresh ==
    /\ \A i \in Instances : Outstanding(i) <= 1
    /\ (GetDataStep(FALSE) /\ last.branch = "stale") =>
          /\ last.registered = (IF last.pending THEN 0 ELSE 1)
          /\ Outstanding(last.inst) = 1

\* A second getData(false) found the entry stale while the callback of the
\* first was still registered, and registered nothing.
SecondStaleReadWhilePending ==
    /\ GetDataStep(FALSE) /\ last.branch = "stale"
    /\ last.pending /\ last.registered = 0
    /\ idleQueue[last.inst] = 1

\* C2: getData(false) on a valid entry whose expiration has passed returns
\* the stored value and invokes no fetch in the call; getData invokes the
\* FetchFunction only when the store holds no valid entry after the reload
\* step.
StaleWhileRevalidate ==
    /\ (/\ GetDataStep(FALSE) /\ ValidEntry(last.item)
        /\ now > last.item.expiration.ms) =>
          /\ last.returned = last.item.value
          /\ ~last.fetchInvoked
    /\ (last.op = "getData" /\ last.fetchInvoked) =>
          ~ValidEntry(ItemAfterReload(last.reload, last.item))

\* C3: for an entry written at w with TTL N, a getData(false) at t >= w + N
\* with no refresh pending registers exactly one callback and returns the
\* stored value.
ExpiredSideBoundary ==
    (/\ GetDataStep(FALSE) /\ lastWrite.written
     /\ now >= WriteExpiry /\ ~last.pending) =>
        /\ last.registered = 1
        /\ Outstanding(last.inst) = 1
        /\ last.returned = last.item.value

\* C4: for an entry written at w with TTL N, a getData(false) at t < w + N
\* returns the cached value, invokes no fetch, registers no callback and
\* leaves the store and the flag as they were.
FreshHitNoEffects ==
    (GetDataStep(FALSE) /\ lastWrite.written /\ now < WriteExpiry) =>
        /\ last.returned = last.item.value
        /\ ~last.fetchInvoked
        /\ last.registered = 0
        /\ store = last.item
        /\ refreshScheduled[last.inst] = last.pending

\* C5: after a fetch wrote the JSON-serializable value v, a getData(false)
\* before the expiration returns v and invokes no fetch.
RoundTrip ==
    (/\ GetDataStep(FALSE) /\ lastWrite.written
     /\ JsonSerializable(lastWrite.value) /\ now < WriteExpiry) =>
        /\ last.returned = lastWrite.value
        /\ ~last.fetchInvoked

\* C6: getData(true) leaves the store without item, finds no cached value,
\* invokes the FetchFunction and returns nothing before the fetch settled;
\* what it returns then is the value the fetch resolved with.
ReloadSemantics ==
    /\ GetDataStep(TRUE) =>
          /\ store = NoItem
          /\ last.branch = "miss" /\ last.fetchInvoked
          /\ last.returned = NoValue
          /\ syncFetches[<<last.inst, TRUE>>] >= 1
    /\ (last.op = "syncResolve" /\ last.reload) =>
          /\ last.returned = last.fetched
          /\ last.fetched \in FetchValues

\* getData(true) ran on a valid, unexpired entry with a truthy value while a
\* refresh was pending.
ReloadOverFreshEntryWhilePending ==
    /\ GetDataStep(TRUE) /\ last.pending
    /\ ValidEntry(last.item) /\ Truthy(last.item.value)
    /\ now < last.item.expiration.ms

\* C7: a getData(false) whose deserialization raised an error behaves as a
\* miss: it invokes the FetchFunction and returns nothing of the stored item.
MalformedEntryIsMiss ==
    (GetDataStep(FALSE) /\ last.caught) =>
        /\ last.branch = "miss"
        /\ last.fetchInvoked
        /\ last.returned = NoValue

\* C8: when the awaited fetch of getData fails, the promise of getData
\* rejects, and the store and the flag are as they were.
SyncFetchFailurePropagates ==
    last.op = "syncReject" =>
        /\ last.rejected /\ last.returned = NoValue
        /\ store = last.item
        /\ refreshScheduled[last.inst] = last.pending

\* The fetch awaited by a getData call failed.
SyncFetchFailed == last.op = "syncReject" /\ last.rejected

\* C9: when the fetch of a deferred refresh fails, no promise of getData
\* rejects, the store is as it was and the observer is not invoked; only a
\* failed fetch of getData itself rejects a getData call.
DeferredFailureContained ==
    /\ last.op = "refreshReject" =>
          /\ ~last.rejected
          /\ store = last.item
          /\ last.observed = NoValue
    /\ last.rejected => last.op = "syncReject"

\* The fetch of a deferred refresh failed over a stored entry, with an
\* observer supplied.
DeferredFetchFailed ==
    /\ last.op = "refreshReject"
    /\ hasObserver[last.inst]
    /\ ValidEntry(store)

\* C10: the flag of an instance is set exactly while a deferred refresh of
\* it is outstanding; the end of the callback, on success and on failure,
\* clears it; and a getData(false) that then detects a stale entry registers
\* a new callback.
GuardFlagLifecycle ==
    /\ \A i \in Instances : refreshScheduled[i] <=> (Outstanding(i) >= 1)
    /\ last.op \in {"refreshResolve", "refreshReject"} =>
          last.pending /\ ~refreshScheduled[last.inst]
    /\ (GetDataStep(FALSE) /\ last.branch = "stale" /\ ~last.pending) =>
          last.registered = 1 /\ refreshScheduled[last.inst]

\* A deferred refresh ended in failure and left the flag clear.
FlagClearAfterFailedRefresh ==
    /\ last.op = "refreshReject"
    /\ last.pending /\ ~refreshScheduled[last.inst]

\* The last step was a write of setCache: the continuation of a getData
\* call or of a deferred refresh whose fetch resolved.
WriteStep == last.op \in {"syncResolve", "refreshResolve"}

\* The last step was an operation of a CacheManager (not the clock, not
\* other code of the page).
ManagerStep == last.op \notin {"init", "tick", "foreignWrite", "construct"}

\* C11: updateExpiration(n) sets the expirationSeconds of its instance to n
\* and leaves every other part of the state, the store and the flag
\* included, as it was; the entry of every write expires n seconds after
\* that write, for n the expirationSeconds of the writing instance then.
TTLUpdateNonRetroactive ==
    /\ [][last'.op = "updateExpiration" =>
            /\ expirationSeconds' =
                  [expirationSeconds EXCEPT ![last'.inst] = last'.seconds]
            /\ UNCHANGED <<now, store, live, hasObserver, refreshScheduled,
                           idleQueue, refreshing, syncFetches, lastWrite>>]_vars
    /\ [](WriteStep =>
            store.expiration =
               IsoString(now + expirationSeconds[last.inst] * MsPerSecond))

\* updateExpiration(n) ran over a stored entry that was written with another
\* TTL than n.
UpdatedOverEntryOfOtherTTL ==
    /\ last.op = "updateExpiration"
    /\ lastWrite.written /\ ValidEntry(store)
    /\ lastWrite.seconds # last.seconds
    /\ expirationSeconds[last.inst] = last.seconds

\* C12: the entry the store holds from a write carries the expiration
\* write time + expirationSeconds of that write, for as long as it is
\* stored; an operation of the manager that leaves a stored entry with
\* another expiration is a write after a resolved fetch.
ExpirationInvariant ==
    /\ WriteStep =>
          /\ lastWrite.at = now
          /\ lastWrite.seconds = expirationSeconds[last.inst]
    /\ lastWrite.written =>
          /\ store.kind = "object"
          /\ store.expiration = IsoString(WriteExpiry)
    /\ (/\ ManagerStep /\ last.item.kind = "object" /\ store.kind = "object"
        /\ store.expiration # last.item.expiration) => WriteStep

\* A deferred refresh overwrote an entry with one that expires later.
RefreshWroteLaterExpiration ==
    /\ last.op = "refreshResolve"
    /\ ValidEntry(last.item)
    /\ store.expiration.ms > last.item.expiration.ms
    /\ now > 0

\* C13: an operation of the manager that finds an item and leaves the store
\* without one is getData(true); any other operation that changes a stored
\* item is a write after a resolved fetch, and the clock changes nothing.
DeletionOnlyOnReload ==
    /\ (ManagerStep /\ last.item # NoItem /\ store = NoItem) =>
          GetDataStep(TRUE)
    /\ (ManagerStep /\ last.item # NoItem /\ store # last.item) =>
          (GetDataStep(TRUE) \/ WriteStep)
    /\ last.op = "tick" => store = last.item

\* A deferred refresh failed and the expired entry is still stored.
ExpiredEntryKeptAfterFailedRefresh ==
    /\ last.op = "refreshReject"
    /\ ValidEntry(store)
    /\ now > store.expiration.ms

\* The position of the effect e in the effects of the last step; 0 when
\* the step did not have it.
EffectAt(e) ==
    IF \E k \in 1..Len(last.effects) : last.effects[k] = e
    THEN CHOOSE k \in 1..Len(last.effects) : last.effects[k] = e
    ELSE 0

\* C14: the continuation of a deferred refresh runs with the value its fetch
\* resolved with; it writes that value to the store first, invokes the
\* observer, when there is one, after the write and with the value it handed
\* to setCache, and resets the flag last.
RefreshOrdering ==
    last.op = "refreshResolve" =>
        /\ last.fetched \in FetchValues
        /\ store = SetCacheText(last.fetched, ValidDate(now),
                                expirationSeconds[last.inst])
        /\ EffectAt("setCache") = 1
        /\ EffectAt("refreshScheduled") = Len(last.effects)
        /\ hasObserver[last.inst] =>
              /\ EffectAt("setCache") < EffectAt("onBackgroundRefresh")
              /\ EffectAt("onBackgroundRefresh") < EffectAt("refreshScheduled")
              /\ last.observed = lastWrite.value
        /\ ~hasObserver[last.inst] =>
              /\ EffectAt("onBackgroundRefresh") = 0
              /\ last.observed = NoValue
        /\ ~refreshScheduled[last.inst]

\* A deferred refresh wrote a truthy value and passed it to the observer.
RefreshObserved ==
    /\ last.op = "refreshResolve"
    /\ hasObserver[last.inst]
    /\ Truthy(last.observed)
    /\ last.observed = store.value

\* C15: with a scheduler that runs the callbacks it holds, every registered
\* callback starts: it leaves the queue and awaits its fetch; and when these
\* fetches settle, a set flag is cleared again.  Stated for "A", the one
\* instance that exists in FairSpec.
RefreshLiveness ==
    /\ (idleQueue["A"] > 0) ~> (idleQueue["A"] = 0 /\ refreshing["A"] > 0)
    /\ refreshScheduled["A"] ~> ~refreshScheduled["A"]

\* The scheduler ran a registered callback, which now awaits its fetch.
RefreshStarted ==
    /\ last.op = "idleRun" /\ last.fetchInvoked
    /\ refreshing[last.inst] = 1
    /\ refreshScheduled[last.inst]

\* C16: while the fetch of a deferred refresh has not settled, the flag of
\* its instance is set and the scheduler holds no further callback of it;
\* a getData(false) of that instance that finds the entry stale registers
\* nothing, invokes no fetch, leaves the store alone and returns the stale
\* value.
HungDeferredFetch ==
    /\ \A i \in Instances :
          refreshing[i] > 0 =>
              /\ refreshScheduled[i]
              /\ idleQueue[i] = 0
              /\ refreshing[i] = 1
    /\ (/\ GetDataStep(FALSE) /\ refreshing[last.inst] > 0
        /\ last.branch = "stale") =>
          /\ last.registered = 0
          /\ ~last.fetchInvoked
          /\ last.returned = last.item.value
          /\ store = last.item

\* A getData(false) returned the stale value while the deferred fetch was
\* still awaited, more than one TTL after the entry expired.
StaleReadWhileFetchHangs ==
    /\ GetDataStep(FALSE) /\ last.branch = "stale"
    /\ refreshing[last.inst] = 1
    /\ last.registered = 0
    /\ last.returned = store.value
    /\ now >= store.expiration.ms + MsPerSecond

\* The last step belongs to the synchronous path of getData: a call that
\* went to its fetch, or the continuation after that fetch settled.
SyncPathStep ==
    \/ last.op = "getData" /\ last.branch = "miss"
    \/ last.op \in {"syncResolve", "syncReject"}

\* C17: the synchronous path neither reads nor writes the flag: getData(true)
\* goes to its fetch with the flag set, and no step of the path changes the
\* flag; every fetch that resolves, of getData or of a deferred refresh,
\* writes its own entry, so the store holds the entry of the fetch that
\* resolved last.
SyncVersusDeferredRace ==
    /\ SyncPathStep => refreshScheduled[last.inst] = last.pending
    /\ (GetDataStep(TRUE) /\ last.pending) =>
          last.fetchInvoked /\ syncFetches[<<last.inst, TRUE>>] >= 1
    /\ WriteStep =>
          /\ store = SetCacheText(last.fetched, ValidDate(now),
                                  expirationSeconds[last.inst])
          /\ lastWrite.value = last.fetched

\* The fetch of a getData(true) resolved and overwrote the store while the
\* fetch of a deferred refresh of the same instance was still awaited.
SyncWriteDuringRefresh ==
    /\ last.op = "syncResolve" /\ last.reload
    /\ last.pending /\ refreshing[last.inst] = 1
    /\ store # last.item

\* C18: every getData(false) that finds no item invokes the FetchFunction,
\* also while other calls await theirs: the calls awaiting a fetch grow by
\* one; each call returns the value its own fetch resolved with and writes
\* it, so the store holds the entry of the later write.
NoColdCacheDeduplication ==
    /\ [][(last'.op = "getData" /\ last'.branch = "miss") =>
            /\ last'.fetchInvoked
            /\ syncFetches' =
                  Inc(syncFetches, <<last'.inst, last'.reload>>)]_vars
    /\ [](last.op = "syncResolve" =>
            /\ last.returned = last.fetched
            /\ store = SetCacheText(last.returned, ValidDate(now),
                                    expirationSeconds[last.inst]))

\* A second getData(false) found the store empty while the fetch of the
\* first was still awaited, and invoked its own.
TwoColdFetchesInFlight ==
    /\ GetDataStep(FALSE) /\ last.item = NoItem
    /\ last.fetchInvoked
    /\ syncFetches[<<last.inst, FALSE>>] = 2

\* C19: the guard is the flag of the instance: a getData(false) that finds
\* the entry stale registers a callback exactly when the flag of its own
\* instance is clear, whatever the flags of the other instances; each flag is
\* set exactly while a refresh of its instance is outstanding; and every
\* resolved refresh writes its entry, the later write replacing the earlier.
GuardIsPerInstance ==
    /\ \A i \in Instances :
          /\ Outstanding(i) <= 1
          /\ refreshScheduled[i] <=> (Outstanding(i) = 1)
    /\ (GetDataStep(FALSE) /\ last.branch = "stale") =>
          last.registered = (IF last.pending THEN 0 ELSE 1)
    /\ last.op = "refreshResolve" =>
          store = SetCacheText(last.fetched, ValidDate(now),
                               expirationSeconds[last.inst])

\* Two instances on the same key have a deferred refresh outstanding each:
\* the second was registered while the flag of the first was set.
TwoRefreshesOnOneKey ==
    /\ GetDataStep(FALSE) /\ last.branch = "stale" /\ last.registered = 1
    /\ \A i \in Instances : Outstanding(i) = 1 /\ refreshScheduled[i]

\* The item read by the step is a JSON object with a truthy value whose
\* expiration is missing or is no date.
UndatedEntry(item) ==
    /\ item.kind = "object"
    /\ ~NewDate(item.expiration).valid
    /\ Truthy(item.value)

\* C20: a getData(false) that reads an entry with a truthy value and a missing
\* or invalid expiration returns the stored value at whatever time it runs:
\* the entry is not expired, no fetch is invoked, no refresh is scheduled, and
\* the entry stays in the store.
UndatedEntryNeverExpires ==
    (GetDataStep(FALSE) /\ UndatedEntry(last.item)) =>
        /\ last.returned = last.item.value
        /\ last.branch = "fresh"
        /\ ~last.fetchInvoked
        /\ last.registered = 0
        /\ refreshScheduled[last.inst] = last.pending
        /\ store = last.item

\* Such an entry is read at the latest instant, after every TTL in use has
\* passed.
UndatedEntryReadLate ==
    /\ GetDataStep(FALSE) /\ UndatedEntry(last.item)
    /\ now = MaxTick * (MsPerSecond \div 2)

====
